---- MODULE Spec2Model ----
(***************************************************************************)
(* A model of rich_logger.RichLogger: the category table LOG_CATEGORIES,   *)
(* the constructor's wiring of a named logging stream, the emit method     *)
(* `log` and the per-category methods bound by `_attach_log_methods`.      *)
(* Text (labels, colours, messages) is a sequence of one-character         *)
(* strings, so that padding, concatenation and upper-casing are computed.  *)
(* The logging library's registry, level filter and handler dispatch are   *)
(* modelled as far as the constructor and `log` drive them.                *)
(***************************************************************************)
EXTENDS Integers, Sequences, FiniteSets, TLC

\* ------------------------------------------------------------------------
\* Severity levels used by the source (logging.NOTSET .. logging.ERROR).
\* ------------------------------------------------------------------------
NOTSET == 0
DEBUG == 10
INFO == 20
WARNING == 30
ERROR == 40

\* Minimum field width of the label in f"{label:<8}".
LabelWidth == 8

\* ------------------------------------------------------------------------
\* Bounds of the model.
\* ------------------------------------------------------------------------
MaxFacades == 2
MaxExtra == 1
MaxForeign == 2

\* ------------------------------------------------------------------------
\* Text.
\* ------------------------------------------------------------------------
LowerChars == <<"a","b","c","d","e","f","g","h","i","j","k","l","m",
                "n","o","p","q","r","s","t","u","v","w","x","y","z">>
UpperChars == <<"A","B","C","D","E","F","G","H","I","J","K","L","M",
                "N","O","P","Q","R","S","T","U","V","W","X","Y","Z">>

\* str.upper() on one character: a lower-case letter maps to its capital,
\* every other character to itself.
UpperOf ==
    [c \in {LowerChars[i] : i \in 1..Len(LowerChars)} |->
        UpperChars[CHOOSE i \in 1..Len(LowerChars) : LowerChars[i] = c]]
UpperChar(c) == IF c \in DOMAIN UpperOf THEN UpperOf[c] ELSE c

\* str.upper()
Upper(s) == [i \in 1..Len(s) |-> UpperChar(s[i])]

\* format(label, "<8"): left-aligned, padded on the right with spaces up to
\* the field width; a longer label is kept whole.
RECURSIVE PadLeftAligned(_, _)
PadLeftAligned(s, width) ==
    IF Len(s) >= width THEN s ELSE PadLeftAligned(Append(s, " "), width)

\* ------------------------------------------------------------------------
\* The category table, in the source's insertion order.
\* ------------------------------------------------------------------------
Entry(name, label, color, level) ==
    [name |-> name, props |-> [label |-> label, color |-> color, level |-> level]]

LOG_CATEGORIES == <<
    Entry("read",    <<"R","E","A","D">>, <<"m","a","g","e","n","t","a">>, INFO),
    Entry("write",   <<"W","R","I","T","E">>, <<"m","a","g","e","n","t","a">>, INFO),
    Entry("meta",    <<"M","E","T","A","D","A","T","A">>, <<"m","a","g","e","n","t","a">>, INFO),
    Entry("stage",   <<"S","T","A","G","E">>, <<"b","l","u","e">>, INFO),
    Entry("step",    <<"S","T","E","P">>, <<"b","l","u","e">>, INFO),
    Entry("substep", <<"S","U","B">>, <<"b","l","u","e">>, INFO),
    Entry("info",    <<"S","T","A","T","U","S">>, <<"b","l","u","e">>, INFO),
    Entry("config",  <<"C","O","N","F","I","G">>, <<"c","y","a","n">>, INFO),
    Entry("metric",  <<"M","E","T","R","I","C">>, <<"c","y","a","n">>, INFO),
    Entry("result",  <<"R","E","S","U","L","T">>, <<"c","y","a","n">>, INFO),
    Entry("warning", <<"W","A","R","N","I","N","G">>, <<"y","e","l","l","o","w">>, WARNING),
    Entry("alert",   <<"A","L","E","R","T">>, <<"r","e","d">>, ERROR),
    Entry("error",   <<"E","R","R","O","R">>, <<"r","e","d">>, ERROR),
    Entry("check",   <<"C","H","E","C","K">>, <<"g","r","e","e","n">>, DEBUG),
    Entry("debug",   <<"D","E","B","U","G">>, <<"g","r","e","e","n">>, DEBUG)
>>

\* dict.keys() and dict[key] on a table.
Keys(tbl) == {tbl[i].name : i \in 1..Len(tbl)}
Props(tbl, key) == tbl[CHOOSE i \in 1..Len(tbl) : tbl[i].name = key].props

NoProps == [label |-> <<>>, color |-> <<>>, level |-> NOTSET]

\* ------------------------------------------------------------------------
\* The logging library's process-wide registry of named streams.
\* ------------------------------------------------------------------------
LoggerNames == {"demo", "demo.io"}
Root == "root"
AllLoggers == LoggerNames \cup {Root}

\* The parent of a stream in the dotted-name hierarchy.
Parent(n) == IF n = "demo.io" THEN "demo" ELSE Root

\* The handler the constructor builds, with handler.setLevel(logging.NOTSET).
RichHandler == [kind |-> "rich", level |-> NOTSET]
\* A handler some other code attached (logging.StreamHandler()).
ForeignHandler == [kind |-> "foreign", level |-> NOTSET]

\* A stream as logging.getLogger first creates it; the root starts at WARNING.
NewLogger(n) ==
    [level |-> IF n = Root THEN WARNING ELSE NOTSET,
     handlers |-> <<>>,
     propagate |-> TRUE]

\* Logger.setLevel, Logger.addHandler, and the assignment to Logger.propagate.
SetLevel(reg, n, lvl) == [reg EXCEPT ![n].level = lvl]
AddHandler(reg, n, h) == [reg EXCEPT ![n].handlers = Append(@, h)]
SetPropagate(reg, n, b) == [reg EXCEPT ![n].propagate = b]

\* A constructor that sets the stream to INFO instead.
StreamLevelInfo == INFO

\* The level the constructor gives the stream: self.logger.setLevel(DEBUG).
StreamLevel == DEBUG

\* A constructor that attaches its handler without looking.
NoHandlersUnchecked(reg, n) == TRUE

\* `if not self.logger.handlers`
NoHandlers(reg, n) == reg[n].handlers = <<>>

\* The guarded block of the constructor: attach the handler, stop propagation.
AttachSink(reg, n) == SetPropagate(AddHandler(reg, n, RichHandler), n, FALSE)

\* RichLogger.__init__, the registry part.
InitRegistry(reg, n) ==
    LET r1 == SetLevel(reg, n, StreamLevel)
    IN  IF NoHandlers(r1, n) THEN AttachSink(r1, n) ELSE r1

\* ------------------------------------------------------------------------
\* The Facade object: its instance attributes and its class attributes.
\* ------------------------------------------------------------------------
\* An attribute value: what it is, the table entry a log_method captured
\* (a reference to the entry's dictionary, by its position in the table), and
\* the stream a Logger names.
ConsoleVal == [kind |-> "console", ref |-> 0, target |-> ""]
LoggerVal(n) == [kind |-> "logger", ref |-> 0, target |-> n]
\* The closure log_method bound to the instance, with its captured props.
LogMethod(ref) == [kind |-> "log_method", ref |-> ref, target |-> ""]
\* Attributes found on the class: the emit method and the other members.
ClassLog == [kind |-> "log", ref |-> 0, target |-> ""]
ClassOther == [kind |-> "class_member", ref |-> 0, target |-> ""]
Missing == [kind |-> "missing", ref |-> 0, target |-> ""]
ClassAttrs == {"log", "_attach_log_methods", "LOG_CATEGORIES"}

\* setattr(self, a, v) on the instance dictionary.
SetAttr(inst, a, v) ==
    [x \in DOMAIN inst \cup {a} |-> IF x = a THEN v ELSE inst[x]]

\* A closure that reads the loop variable when called: the last entry.
LateBoundProps(tbl, i) == Len(tbl)

\* The default argument `props = properties` is evaluated when the closure
\* is defined, in the iteration that defines it: entry i's dictionary.
BoundProps(tbl, i) == i

\* props["label"], props["color"], props["level"] through a captured reference.
Deref(tbl, ref) == IF ref \in 1..Len(tbl) THEN tbl[ref].props ELSE NoProps

\* The loop of _attach_log_methods from entry i on.
RECURSIVE AttachFrom(_, _, _)
AttachFrom(inst, tbl, i) ==
    IF i > Len(tbl) THEN inst
    ELSE AttachFrom(SetAttr(inst, tbl[i].name, LogMethod(BoundProps(tbl, i))),
                    tbl, i + 1)

\* RichLogger._attach_log_methods
AttachLogMethods(inst, tbl) == AttachFrom(inst, tbl, 1)

\* The object RichLogger(name) leaves behind.
NewFacade(n, tbl) ==
    [name |-> n,
     inst |-> AttachLogMethods("console" :> ConsoleVal @@ "logger" :> LoggerVal(n),
                               tbl)]

\* An attribute lookup that falls back to the last category for any name.
LookupWithFallback(f, a) ==
    IF a \in DOMAIN f.inst THEN f.inst[a]
    ELSE IF a = "log" THEN ClassLog
    ELSE LogMethod(Len(LOG_CATEGORIES))

\* getattr(self, a): the instance dictionary first, then the class.
Lookup(f, a) ==
    IF a \in DOMAIN f.inst THEN f.inst[a]
    ELSE IF a = "log" THEN ClassLog
    ELSE IF a \in ClassAttrs THEN ClassOther
    ELSE Missing

\* ------------------------------------------------------------------------
\* The logging library's dispatch of one record.
\* ------------------------------------------------------------------------
\* Logger.getEffectiveLevel: the first level set on the way to the root.
RECURSIVE EffectiveLevel(_, _)
EffectiveLevel(reg, n) ==
    IF reg[n].level # NOTSET THEN reg[n].level
    ELSE IF n = Root THEN NOTSET
    ELSE EffectiveLevel(reg, Parent(n))

\* Logger.isEnabledFor
IsEnabledFor(reg, n, level) == level >= EffectiveLevel(reg, n)

\* The handlers Logger.callHandlers visits: the stream's own, then, while
\* propagation is on, the parents'.
RECURSIVE HandlerChain(_, _)
HandlerChain(reg, n) ==
    reg[n].handlers \o
        (IF reg[n].propagate /\ n # Root THEN HandlerChain(reg, Parent(n)) ELSE <<>>)

\* What a handler shows of a record besides its text. A traceback is shown only for a real
\* exception; for the empty triple of sys.exc_info() the formatter appends
\* the line "NoneType: None" to the text instead.
Render(h, rec) ==
    [handler |-> h.kind,
     traceback |-> rec.exc_info = "exception",
     exc_text |-> IF rec.exc_info = "empty" THEN "NoneType: None" ELSE ""]

\* Logger.callHandlers: every handler of the chain whose level admits the
\* record; with no handler at all, the last-resort handler (WARNING).
CallHandlers(reg, n, rec) ==
    LET chain == HandlerChain(reg, n)
        pass == SelectSeq(chain, LAMBDA h : rec.level >= h.level)
    IN  IF chain = <<>>
        THEN IF rec.level >= WARNING
             THEN <<Render([kind |-> "lastResort", level |-> WARNING], rec)>>
             ELSE <<>>
        ELSE [i \in 1..Len(pass) |-> Render(pass[i], rec)]

\* A traceback taken whenever one is requested, active exception or not.
SysExcInfoAlways(requested, active) == IF requested THEN "exception" ELSE "none"

\* sys.exc_info() as Logger._log reads it when exc_info is true.
SysExcInfo(requested, active) ==
    IF ~requested THEN "none"
    ELSE IF active THEN "exception" ELSE "empty"

\* Logger.log(level, text, exc_info = requested) on stream n.
LoggerLog(reg, n, level, text, requested, active) ==
    IF IsEnabledFor(reg, n, level)
    THEN CallHandlers(reg, n,
             [level |-> level, text |-> text,
              exc_info |-> SysExcInfo(requested, active)])
    ELSE <<>>

\* ------------------------------------------------------------------------
\* RichLogger.log
\* ------------------------------------------------------------------------
\* rich_label = f"[{color}]{label:<8}[/]"
RichLabel(label, color) ==
    <<"[">> \o color \o <<"]">> \o PadLeftAligned(label, LabelWidth) \o <<"[","/","]">>

\* f"{rich_label} {message}"
LogText(message, label, color) == RichLabel(label, color) \o <<" ">> \o message

\* A policy that compares the label as written, without upper().
LogExcInfoExact(label) == label \in {<<"D","E","B","U","G">>}

\* A policy that covers both development categories.
LogExcInfoDevelopment(label) ==
    Upper(label) \in {<<"D","E","B","U","G">>, <<"C","H","E","C","K">>}

\* exc_info = label.upper() in {"DEBUG"}
LogExcInfo(label) == Upper(label) \in {<<"D","E","B","U","G">>}

\* The outcome of a call: how it returned, the calls it made to
\* Logger.log, and what the handlers showed.
Outcome(how, sent, rendered) ==
    [outcome |-> how, sent |-> sent, rendered |-> rendered]
Raised(err) == Outcome(err, <<>>, <<>>)

\* self.log(message, label, level, color) once `log` resolved to the class's
\* method: self.logger.log(level, text, exc_info = ...).
Log(f, reg, active, message, label, level, color) ==
    LET lg == Lookup(f, "logger")
        text == LogText(message, label, color)
        requested == LogExcInfo(label)
    IN  IF lg.kind # "logger" THEN Raised("AttributeError")
        ELSE Outcome("ok",
                 <<[level |-> level, text |-> text, exc_info |-> requested]>>,
                 LoggerLog(reg, lg.target, level, text, requested, active))

\* log_method(self, message, props): self.log(message, props["label"],
\* color = props["color"], level = props["level"]). When `log` resolves to a
\* bound log_method, the keywords color and level are not accepted.
LogMethodCall(f, tbl, reg, active, message, ref) ==
    LET target == Lookup(f, "log")
        props == Deref(tbl, ref)
    IN  IF target.kind = "log"
        THEN Log(f, reg, active, message, props.label, props.level, props.color)
        ELSE Raised("TypeError")

\* facade.<op>(message), by what the attribute is.
CallOp(f, tbl, reg, active, op, message) ==
    LET v == Lookup(f, op)
    IN  CASE v.kind = "missing" -> Raised("AttributeError")
          [] v.kind = "log_method" -> LogMethodCall(f, tbl, reg, active, message, v.ref)
          [] OTHER -> Raised("TypeError")

\* ------------------------------------------------------------------------
\* Inputs.
\* ------------------------------------------------------------------------
Messages == { <<"o","k">>, <<"1","/","0">> }

\* Names a caller may invoke on a Facade: the categories, the Facade's other
\* attributes, and names defined nowhere.
ExtraNames == {"audit", "log", "logger", "console"}
OtherNames == {"log", "logger", "console", "trace"}
OpNames == Keys(LOG_CATEGORIES) \cup ExtraNames \cup OtherNames

\* Arguments of a direct call of log(message, label, level, color).
DirectLabels ==
    { <<"D","E","B","U","G">>, <<"d","e","b","u","g">>, <<"D","e","b","u","g">>,
      <<"C","H","E","C","K">>, <<"D","E","B","U","G","G","I","N","G">> }
DirectLevels == {NOTSET, ERROR}
DirectColors == { <<"w","h","i","t","e">>, <<"g","r","e","e","n">> }

\* Entries a program may add to the table before constructing a Facade.
ExtraLabels ==
    { <<"A","U","D","I","T">>, <<"d","e","b","u","g">>,
      <<"A","U","D","I","T","L","O","G","S">> }
ExtraColors == { <<"w","h","i","t","e">> }
ExtraLevels == {DEBUG, ERROR}

Threads == {1, 2}

\* ------------------------------------------------------------------------
\* State.
\* ------------------------------------------------------------------------
VARIABLES
    table,      \* RichLogger.LOG_CATEGORIES, as the class holds it now
    registry,   \* the logging library's streams, by name
    facades,    \* the RichLogger objects constructed so far
    exc,        \* whether the caller is inside an except block
    last,       \* the most recent call on a Facade and what came of it
    threads     \* constructions in progress, one per thread

vars == <<table, registry, facades, exc, last, threads>>

NoCall ==
    [kind |-> "none", facade |-> 0, op |-> "", message |-> <<>>,
     label |-> <<>>, color |-> <<>>, level |-> NOTSET, active |-> FALSE,
     outcome |-> "none", sent |-> <<>>, rendered |-> <<>>]

Idle == [pc |-> "idle", name |-> ""]

Init ==
    /\ table = LOG_CATEGORIES
    /\ registry = [n \in AllLoggers |-> NewLogger(n)]
    /\ facades = <<>>
    /\ exc = FALSE
    /\ last = NoCall
    /\ threads = [t \in Threads |-> Idle]

\* ------------------------------------------------------------------------
\* Operations.
\* ------------------------------------------------------------------------
\* RichLogger(name), run to completion.
Construct(n) ==
    /\ Len(facades) < MaxFacades
    /\ registry' = InitRegistry(registry, n)
    /\ facades' = Append(facades, NewFacade(n, table))
    /\ UNCHANGED <<table, exc, last, threads>>

\* facades[i].<op>(message)
Call(i, op, message) ==
    LET f == facades[i]
        props == Deref(table, Lookup(f, op).ref)
    IN  /\ \E r \in {CallOp(f, table, registry, exc, op, message)} :
              last' = [kind |-> "call", facade |-> i, op |-> op, message |-> message,
                       label |-> props.label, color |-> props.color,
                       level |-> props.level, active |-> exc,
                       outcome |-> r.outcome, sent |-> r.sent, rendered |-> r.rendered]
        /\ UNCHANGED <<table, registry, facades, exc, threads>>

\* facades[i].log(message, label, level, color), called directly.
EmitDirect(i, message, label, level, color) ==
    LET f == facades[i]
    IN  /\ \E r \in {IF Lookup(f, "log").kind = "log"
                      THEN Log(f, registry, exc, message, label, level, color)
                      ELSE Raised("TypeError")} :
              last' = [kind |-> "emit", facade |-> i, op |-> "log", message |-> message,
                       label |-> label, color |-> color, level |-> level,
                       active |-> exc,
                       outcome |-> r.outcome, sent |-> r.sent, rendered |-> r.rendered]
        /\ UNCHANGED <<table, registry, facades, exc, threads>>

\* The caller enters an except block (an exception is being handled) ...
EnterExcept ==
    /\ ~exc
    /\ exc' = TRUE
    /\ UNCHANGED <<table, registry, facades, last, threads>>

\* ... and leaves it.
LeaveExcept ==
    /\ exc
    /\ exc' = FALSE
    /\ UNCHANGED <<table, registry, facades, last, threads>>

\* RichLogger.LOG_CATEGORIES[name] = {label, color, level}, a new key.
AddCategory(name, label, color, level) ==
    /\ Len(table) < Len(LOG_CATEGORIES) + MaxExtra
    /\ name \notin Keys(table)
    /\ table' = Append(table, Entry(name, label, color, level))
    /\ UNCHANGED <<registry, facades, exc, last, threads>>

\* Other code: logging.getLogger(n).addHandler(logging.StreamHandler()).
ForeignCount(reg) ==
    Cardinality({<<n, i>> \in AllLoggers \X (1..(MaxForeign + MaxFacades + 1)) :
                    i <= Len(reg[n].handlers) /\ reg[n].handlers[i].kind = "foreign"})

ForeignAddHandler(n) ==
    /\ ForeignCount(registry) < MaxForeign
    /\ registry' = AddHandler(registry, n, ForeignHandler)
    /\ UNCHANGED <<table, facades, exc, last, threads>>

\* RichLogger(name) on a thread of its own, one step per statement.
TBegin(t, n) ==
    /\ threads[t].pc = "idle"
    /\ registry' = SetLevel(registry, n, StreamLevel)
    /\ threads' = [threads EXCEPT ![t] = [pc |-> "check", name |-> n]]
    /\ UNCHANGED <<table, facades, exc, last>>

TCheck(t) ==
    /\ threads[t].pc = "check"
    /\ threads' = [threads EXCEPT ![t].pc =
                      IF NoHandlers(registry, threads[t].name) THEN "add" ELSE "attach"]
    /\ UNCHANGED <<table, registry, facades, exc, last>>

TAddHandler(t) ==
    /\ threads[t].pc = "add"
    /\ registry' = AddHandler(registry, threads[t].name, RichHandler)
    /\ threads' = [threads EXCEPT ![t].pc = "propagate"]
    /\ UNCHANGED <<table, facades, exc, last>>

TPropagate(t) ==
    /\ threads[t].pc = "propagate"
    /\ registry' = SetPropagate(registry, threads[t].name, FALSE)
    /\ threads' = [threads EXCEPT ![t].pc = "attach"]
    /\ UNCHANGED <<table, facades, exc, last>>

TAttach(t) ==
    /\ threads[t].pc = "attach"
    /\ facades' = Append(facades, NewFacade(threads[t].name, table))
    /\ threads' = [threads EXCEPT ![t].pc = "done"]
    /\ UNCHANGED <<table, registry, exc, last>>

\* ------------------------------------------------------------------------
\* Specifications.
\* ------------------------------------------------------------------------
DoConstruct == \E n \in LoggerNames : Construct(n)
DoCall == \E i \in 1..Len(facades), op \in OpNames, m \in Messages : Call(i, op, m)
DoEmitDirect ==
    \E i \in 1..Len(facades), m \in Messages, l \in DirectLabels,
       lv \in DirectLevels, c \in DirectColors : EmitDirect(i, m, l, lv, c)
DoAddCategory ==
    \E n \in ExtraNames, l \in ExtraLabels, c \in ExtraColors, lv \in ExtraLevels :
        AddCategory(n, l, c, lv)
DoForeignAddHandler == \E n \in AllLoggers : ForeignAddHandler(n)
DoTBegin == \E t \in Threads, n \in LoggerNames : TBegin(t, n)
DoTCheck == \E t \in Threads : TCheck(t)
DoTAddHandler == \E t \in Threads : TAddHandler(t)
DoTPropagate == \E t \in Threads : TPropagate(t)
DoTAttach == \E t \in Threads : TAttach(t)

\* Sequential use of the default table.
Next == DoConstruct \/ DoCall \/ DoEmitDirect \/ EnterExcept \/ LeaveExcept
Spec == Init /\ [][Next]_vars

\* The table extended before Facades are constructed.
NextExt == DoAddCategory \/ DoConstruct \/ DoCall
SpecExt == Init /\ [][NextExt]_vars

\* Other code attaching handlers of its own to the same streams.
NextEnv == DoForeignAddHandler \/ DoConstruct \/ DoCall
SpecEnv == Init /\ [][NextEnv]_vars

\* Two threads constructing Facades.
NextConc == DoTBegin \/ DoTCheck \/ DoTAddHandler \/ DoTPropagate \/ DoTAttach \/ DoCall
SpecConc == Init /\ [][NextConc]_vars

\* ------------------------------------------------------------------------
\* Properties.
\* ------------------------------------------------------------------------
\* The latest call invoked a category of the table.
IsCategoryCall == last.kind = "call" /\ last.op \in Keys(table)

Spaces(n) == [i \in 1..n |-> " "]

\* The text a category call is to forward: the colour markup around the
\* label, spaces up to a field of 8, one space, the message.
ExpectedText(p, message) ==
    <<"[">> \o p.color \o <<"]">> \o p.label
      \o Spaces(IF Len(p.label) < 8 THEN 8 - Len(p.label) ELSE 0)
      \o <<"[", "/", "]", " ">> \o message

\* s occurs in t as a contiguous run.
Contains(t, s) ==
    \E k \in 0..(Len(t) - Len(s)) : SubSeq(t, k + 1, k + Len(s)) = s

\* C1: a call of category c forwards exactly one record to the stream, with
\* the text built from c's own label, colour and the message, at c's own
\* severity.
C1_CategoryCallForwardsOwnEntry ==
    IsCategoryCall =>
        /\ last.outcome = "ok"
        /\ Len(last.sent) = 1
        /\ last.sent[1].level = Props(table, last.op).level
        /\ last.sent[1].text = ExpectedText(Props(table, last.op), last.message)

C1_Witness ==
    /\ IsCategoryCall
    /\ last.op = "read"
    /\ last.outcome = "ok"
    /\ Len(last.sent) = 1
    /\ Len(last.sent[1].text) > Len(last.message) + 8

\* C2: after sequential constructions every constructed name has exactly one
\* handler attached, and a category call is shown exactly once.
C2_OneSinkPerName ==
    /\ \A i \in 1..Len(facades) : Len(registry[facades[i].name].handlers) = 1
    /\ (IsCategoryCall => Len(last.rendered) = 1)

C2_Witness ==
    /\ Len(facades) >= 2
    /\ facades[1].name = facades[2].name
    /\ IsCategoryCall
    /\ last.facade = 2
    /\ Len(last.rendered) = 1

\* C3 as stated: every category of severity debug, called while an
\* exception is active, shows a traceback.
C3_DebugSeverityShowsTraceback ==
    (IsCategoryCall /\ last.active /\ Props(table, last.op).level = DEBUG) =>
        /\ Len(last.rendered) >= 1
        /\ \A j \in 1..Len(last.rendered) : last.rendered[j].traceback

\* C3 as amended: called while an exception is active, `debug` (the category
\* whose label is DEBUG) shows a traceback, and `check`, of the same severity,
\* shows its record without one.
C3_DebugLabelShowsTraceback ==
    /\ (IsCategoryCall /\ last.active /\ last.op = "debug") =>
           (Len(last.rendered) = 1 /\ last.rendered[1].traceback)
    /\ (IsCategoryCall /\ last.active /\ last.op = "check") =>
           (Len(last.rendered) = 1 /\ ~last.rendered[1].traceback)

C3_Witness ==
    /\ IsCategoryCall
    /\ last.active
    /\ last.op = "debug"
    /\ Len(last.rendered) = 1
    /\ last.rendered[1].traceback

C5_UnknownCallFails ==
    (last.kind = "call" /\ last.op \notin Keys(table)) =>
        /\ last.outcome \in {"AttributeError", "TypeError"}
        /\ last.sent = <<>>
        /\ last.rendered = <<>>

\* ... and leaves the registry, the table and the Facades as they were.
C5_UnknownCallChangesNothing ==
    (last' # last /\ last'.kind = "call" /\ last'.op \notin Keys(table)) =>
        (registry' = registry /\ table' = table /\ facades' = facades)

\* C5: always, an unknown call has failed and shown nothing, and the step
\* that made it changed neither the registry, nor the table, nor a Facade.
C5_UnknownCategory == []C5_UnknownCallFails /\ [][C5_UnknownCallChangesNothing]_vars

C5_Witness ==
    /\ last.kind = "call"
    /\ last.op = "trace"
    /\ last.outcome = "AttributeError"
    /\ last.sent = <<>>

\* C6: after a construction the stream does not propagate to its parents,
\* and a category call is shown exactly once, whatever handlers the stream
\* or its parents had before.
C6_PropagationDisabled ==
    /\ \A i \in 1..Len(facades) : ~registry[facades[i].name].propagate
    /\ (IsCategoryCall /\ last.outcome = "ok") => Len(last.rendered) = 1

\* C7: every constructed stream is at level debug, its handler admits every
\* level, and every category call is shown by the Facade's handler.
C7_NothingFiltered ==
    /\ \A i \in 1..Len(facades) :
          LET lg == registry[facades[i].name]
          IN  /\ lg.level = 10
              /\ \A j \in 1..Len(lg.handlers) : lg.handlers[j].level = 0
    /\ IsCategoryCall =>
          \E j \in 1..Len(last.rendered) : last.rendered[j].handler = "rich"

C7_Witness ==
    /\ IsCategoryCall
    /\ last.op = "check"
    /\ last.level = 10
    /\ Len(last.rendered) = 1
    /\ last.rendered[1].handler = "rich"

\* C8: once both concurrent constructions have finished, no stream has more
\* than one handler attached.
C8_GuardedRegistration ==
    (\A t \in Threads : threads[t].pc = "done") =>
        \A n \in LoggerNames : Len(registry[n].handlers) <= 1

\* A Facade constructed when the table already held all its present keys.
ConstructedAfter(f) ==
    \A k \in Keys(table) : k \in DOMAIN f.inst /\ f.inst[k].kind = "log_method"

\* C9: on a Facade constructed after the table was extended, every category
\* of the table, the new one included, returns normally and forwards one
\* record with its own entry's label, colour and severity.
C9_DerivedFromTable ==
    (IsCategoryCall /\ ConstructedAfter(facades[last.facade])) =>
        /\ last.outcome = "ok"
        /\ Len(last.sent) = 1
        /\ last.sent[1].level = Props(table, last.op).level
        /\ last.sent[1].text = ExpectedText(Props(table, last.op), last.message)

\* The label is DEBUG in some mix of upper and lower case.
IsDebugAnyCase(label) ==
    /\ Len(label) = 5
    /\ \A i \in 1..5 :
          label[i] \in {<<"D","E","B","U","G">>[i], <<"d","e","b","u","g">>[i]}

\* C10: a call that reaches log requests the traceback exactly when the
\* label spells DEBUG in any case, whatever the severity, colour and
\* message; among the default categories that is `debug` alone.
C10_TracebackKeyedOnLabel ==
    /\ (last.kind \in {"call", "emit"} /\ last.outcome = "ok") =>
          /\ Len(last.sent) = 1
          /\ last.sent[1].exc_info <=> IsDebugAnyCase(last.label)
    /\ IsCategoryCall => (last.sent[1].exc_info <=> last.op = "debug")

C10_Witness ==
    /\ last.kind = "emit"
    /\ last.label = <<"d","e","b","u","g">>
    /\ last.level = 40
    /\ last.color = <<"w","h","i","t","e">>
    /\ last.outcome = "ok"
    /\ last.sent[1].exc_info

====
